---- MODULE Spec2Model ----
(***************************************************************************)
(* Model of csvlistmaker.py: the resumable CSV -> YouTube playlist import.  *)
(* One run of import_csv_to_youtube is a sequence of steps, one per call    *)
(* to an external collaborator (listing, search, insert); the three files   *)
(* (dedup cache, checkpoint, failure log) survive from run to run.          *)
(* Text is a sequence of one-character strings, so that str.lower() is      *)
(* computed and not assumed.                                                *)
(***************************************************************************)
EXTENDS Integers, Sequences, FiniteSets

VARIABLES
    csv,              \* the source file: sequence of rows [track, artist]
    playlist,         \* the destination playlist as the listing collaborator pages it
    cache_file,       \* CACHE_FILE: <<>> when absent, <<set of titles>> when present
    remaining_file,   \* REMAINING_FILE: <<>> when absent, <<list of songs>> when present
    log_file,         \* LOG_FILE: <<>> when absent, <<list of records>> when present
    pc,               \* position of the run
    titles,           \* get_existing_video_titles: local set
    next_page,        \* get_existing_video_titles: page token (0 is None)
    existing_titles,  \* import_csv_to_youtube: the dedup index
    remaining_songs,  \* import_csv_to_youtube: the queue
    failed_log,       \* import_csv_to_youtube: this run's failure records
    added_count,      \* import_csv_to_youtube: successful insertions of this run
    song,             \* the unit popped by the current iteration
    attempt,          \* add_video: loop variable
    runs,             \* history: number of runs started
    faults,           \* history: number of calls of list, search and add_video that
                      \* met a non-success answer
    queue0,           \* history: the queue as loaded by this run
    index0,           \* history: the dedup index as built by this run
    outcomes,         \* history: outcome of every unit popped by this run, in order
    inserted,         \* history: queries of the units inserted by this run, in order
    indexed,          \* history: every query that has been in a dedup index, any run
    nSearch,          \* history: search calls of this run
    nInsert,          \* history: insert calls of this run
    pauses,           \* history: batch cool-down sleeps of this run
    cooldowns,        \* history: retry sleeps of the current add_video call
    tries,            \* history: insert calls of the current add_video call
    nList,            \* history: listing calls of this run
    csvRead           \* history: this run read the source file

vars == <<csv, playlist, cache_file, remaining_file, log_file, pc, titles, next_page,
          existing_titles, remaining_songs, failed_log, added_count, song, attempt,
          runs, faults, queue0, index0, outcomes, inserted, indexed, nSearch,
          nInsert, pauses, cooldowns, tries, nList, csvRead>>

files == <<cache_file, remaining_file, log_file>>
env == <<csv, playlist>>

----------------------------------------------------------------------------
(* Bounds *)

MaxSongs == 3        \* rows of the source file
MaxPages == 2        \* pages of the destination playlist
MaxRuns == 2         \* runs of the program over the same files
MaxFaults == 2       \* calls that meet a non-success answer, all runs
BatchExtra == 2      \* rows beyond BATCH_SIZE in the long source file
BatchFaults == 1     \* calls that meet a non-success answer, long source file

(* Program constants *)

BATCH_SIZE == 50

RETRIES_more == 3 + 1

RETRIES == 3

----------------------------------------------------------------------------
(* Text *)

UpperCase == <<"A", "B", "C", "D", "E", "F", "G", "H", "X">>
LowerCase == <<"a", "b", "c", "d", "e", "f", "g", "h", "x">>

LowerChar(c) ==
    IF \E i \in 1..Len(UpperCase) : UpperCase[i] = c
    THEN LowerCase[CHOOSE i \in 1..Len(UpperCase) : UpperCase[i] = c]
    ELSE c

Lower(s) == [i \in 1..Len(s) |-> LowerChar(s[i])]

----------------------------------------------------------------------------
(* Songs and failure records *)

MakeSong(row) ==
    [query |-> Lower(row.track \o <<" ">> \o row.artist),
     track |-> row.track, artist |-> row.artist]

RECURSIVE read_csv_songs(_)
read_csv_songs(rows) ==
    IF rows = <<>> THEN <<>>
    ELSE <<MakeSong(Head(rows))>> \o read_csv_songs(Tail(rows))

Failure(s, reason) ==
    [query |-> s.query, track |-> s.track, artist |-> s.artist, Reason |-> reason]

NoSong == [query |-> <<>>, track |-> <<>>, artist |-> <<>>]

----------------------------------------------------------------------------
(* HttpError *)

HttpErrors ==
    {[status |-> 403, reason |-> "quotaExceeded"],
     [status |-> 403, reason |-> "forbidden"],
     [status |-> 500, reason |-> "backendError"]}

IsQuotaExceeded(e) == e.status = 403 /\ e.reason = "quotaExceeded"

----------------------------------------------------------------------------
(* Inputs *)

Rows ==
    {[track |-> <<"A">>, artist |-> <<"x">>],
     [track |-> <<"b">>, artist |-> <<"X">>]}

RawTitles == {<<"A", " ", "x">>, <<"b", " ", "X">>}

SeqsUpTo(S, n) == UNION {[1..k -> S] : k \in 0..n}

Playlists == {<<{}>>} \cup UNION {[1..k -> {{t} : t \in RawTitles}] : k \in 1..MaxPages}

BatchLetters == <<"B", "C", "D", "E", "F", "G", "H", "X">>

BatchRow(i) ==
    [track |-> <<BatchLetters[((i - 1) \div 8) + 1], BatchLetters[((i - 1) % 8) + 1]>>,
     artist |-> <<"x">>]

BatchCsv == [i \in 1..(BATCH_SIZE + BatchExtra) |-> BatchRow(i)]

FaultLimit == IF Len(csv) > MaxSongs THEN BatchFaults ELSE MaxFaults

----------------------------------------------------------------------------
(* The state before the first run: no file has been written yet. *)

InitRun ==
    /\ cache_file = <<>>
    /\ remaining_file = <<>>
    /\ log_file = <<>>
    /\ pc = "idle"
    /\ titles = {}
    /\ next_page = 0
    /\ existing_titles = {}
    /\ remaining_songs = <<>>
    /\ failed_log = <<>>
    /\ added_count = 0
    /\ song = NoSong
    /\ attempt = 0
    /\ runs = 0
    /\ faults = 0
    /\ queue0 = <<>>
    /\ index0 = {}
    /\ outcomes = <<>>
    /\ inserted = <<>>
    /\ indexed = {}
    /\ nSearch = 0
    /\ nInsert = 0
    /\ pauses = 0
    /\ cooldowns = 0
    /\ tries = 0
    /\ nList = 0
    /\ csvRead = FALSE

Init ==
    /\ csv \in SeqsUpTo(Rows, MaxSongs)
    /\ playlist \in Playlists
    /\ InitRun

InitBatch ==
    /\ csv = BatchCsv
    /\ playlist = <<{}>>
    /\ InitRun

----------------------------------------------------------------------------
(* Helpers *)

Last(s) == s[Len(s)]

BatchPause(count) == count % BATCH_SIZE = 0 /\ count > 0

PauseAfter(count) == IF BatchPause(count) THEN pauses + 1 ELSE pauses

PageTitles(page) == {Lower(t) : t \in page}

(* os.path.exists(REMAINING_FILE) *)
HasCheckpoint_never(file) == FALSE

HasCheckpoint(file) == file # <<>>

(* query in existing_titles *)
InIndex_never(q, index) == FALSE

InIndex(q, index) == q \in index

(* remaining_songs.pop(0) returns the first unit *)
Front_last(queue) == queue[Len(queue)]

Front(queue) == Head(queue)

(* existing_titles.add(query) *)
AddTitle_skip(index, q) == index

AddTitle_replace(index, q) == {q}

AddTitle(index, q) == index \cup {q}

(* return titles, in the except-branch of the listing *)
PartialTitles_empty(got) == {}

PartialTitles(got) == got

(* remaining_songs.pop(0) leaves the tail *)
PopFront_keep(queue) == queue

PopFront(queue) == Tail(queue)

(* remaining_songs.insert(0, song) *)
PushFront_append(s, queue) == queue \o <<s>>

PushFront(s, queue) == <<s>> \o queue

(* [song] + remaining_songs *)
WithCurrent(s, queue) == <<s>> \o queue

(* if remaining_songs: ... pickle.dump(remaining_songs, f) *)
SaveRemaining_always(queue, file) == <<queue>>

SaveRemaining(queue, file) == IF queue # <<>> THEN <<queue>> ELSE file

(* if failed_log: ... writer.writerow(entry) *)
SaveLog_append(records, file) ==
    IF records # <<>>
    THEN <<(IF file = <<>> THEN <<>> ELSE file[1]) \o records>>
    ELSE file

SaveLog(records, file) == IF records # <<>> THEN <<records>> ELSE file

----------------------------------------------------------------------------
(* import_csv_to_youtube is called; get_existing_video_titles starts. *)

StartRun ==
    /\ pc \in {"idle", "done"}
    /\ runs < MaxRuns
    /\ runs' = runs + 1
    /\ titles' = {}
    /\ next_page' = 0
    /\ IF cache_file # <<>>
       THEN /\ existing_titles' = cache_file[1]
            /\ pc' = "load"
       ELSE /\ existing_titles' = {}
            /\ pc' = "list"
    /\ indexed' = indexed \cup existing_titles'
    /\ remaining_songs' = <<>>
    /\ failed_log' = <<>>
    /\ added_count' = 0
    /\ song' = NoSong
    /\ attempt' = 0
    /\ queue0' = <<>>
    /\ index0' = {}
    /\ outcomes' = <<>>
    /\ inserted' = <<>>
    /\ nSearch' = 0
    /\ nInsert' = 0
    /\ pauses' = 0
    /\ cooldowns' = 0
    /\ tries' = 0
    /\ nList' = 0
    /\ csvRead' = FALSE
    /\ UNCHANGED <<env, files, faults>>

(* One page of the playlist is listed; after the last page the cache is written. *)
ListPage ==
    /\ pc = "list"
    /\ nList' = nList + 1
    /\ LET page == playlist[next_page + 1]
           got == titles \cup PageTitles(page)
       IN  /\ titles' = got
           /\ IF next_page + 1 < Len(playlist)
              THEN /\ next_page' = next_page + 1
                   /\ UNCHANGED <<cache_file, existing_titles, indexed, pc>>
              ELSE /\ next_page' = 0
                   /\ cache_file' = <<got>>
                   /\ existing_titles' = got
                   /\ indexed' = indexed \cup got
                   /\ pc' = "load"
    /\ UNCHANGED <<env, tries, remaining_file, log_file, remaining_songs, failed_log,
                   added_count, song, attempt, runs, faults, queue0, index0,
                   outcomes, inserted, nSearch, nInsert, pauses, cooldowns, csvRead>>

(* The listing raises HttpError: the partial set is returned, no cache is written. *)
ListHttpError_caches ==
    /\ pc = "list"
    /\ nList' = nList + 1
    /\ faults < FaultLimit
    /\ \E e \in HttpErrors :
          /\ faults' = faults + 1
          /\ existing_titles' = PartialTitles(titles)
          /\ indexed' = indexed \cup existing_titles'
          /\ cache_file' = <<titles>>
          /\ pc' = "load"
    /\ UNCHANGED <<env, tries, remaining_file, log_file, titles, next_page, remaining_songs, failed_log,
                   added_count, song, attempt, runs, queue0, index0, outcomes,
                   inserted, nSearch, nInsert, pauses, cooldowns, csvRead>>

ListHttpError ==
    /\ pc = "list"
    /\ nList' = nList + 1
    /\ faults < FaultLimit
    /\ \E e \in HttpErrors :
          /\ faults' = faults + 1
          /\ existing_titles' = PartialTitles(titles)
          /\ indexed' = indexed \cup existing_titles'
          /\ pc' = "load"
    /\ UNCHANGED <<env, tries, files, titles, next_page, remaining_songs, failed_log,
                   added_count, song, attempt, runs, queue0, index0, outcomes,
                   inserted, nSearch, nInsert, pauses, cooldowns, csvRead>>

(* The queue is the checkpoint when there is one, the source file otherwise. *)
LoadQueue ==
    /\ pc = "load"
    /\ IF HasCheckpoint(remaining_file)
       THEN /\ remaining_songs' = remaining_file[1]
            /\ csvRead' = FALSE
       ELSE /\ remaining_songs' = read_csv_songs(csv)
            /\ csvRead' = TRUE
    /\ failed_log' = <<>>
    /\ added_count' = 0
    /\ queue0' = remaining_songs'
    /\ index0' = existing_titles
    /\ pc' = "loop"
    /\ UNCHANGED <<env, tries, nList, files, titles, next_page, existing_titles, song, attempt,
                   runs, faults, outcomes, inserted, indexed, nSearch, nInsert,
                   pauses, cooldowns>>

(* One unit is popped; a unit whose query is in the index is skipped. *)
Dequeue ==
    /\ pc = "loop"
    /\ remaining_songs # <<>>
    /\ song' = Front(remaining_songs)
    /\ remaining_songs' = PopFront(remaining_songs)
    /\ IF InIndex(song'.query, existing_titles)
       THEN /\ failed_log' = Append(failed_log, Failure(song', "Already added"))
            /\ outcomes' = Append(outcomes, "AlreadyAdded")
            /\ pc' = "loop"
       ELSE /\ UNCHANGED <<failed_log, outcomes>>
            /\ pc' = "search"
    /\ UNCHANGED <<env, tries, nList, files, titles, next_page, existing_titles, added_count,
                   attempt, runs, faults, queue0, index0, inserted, indexed,
                   nSearch, nInsert, pauses, cooldowns, csvRead>>

(* The search returns a video: add_video is entered. *)
SearchFound ==
    /\ pc = "search"
    /\ nSearch' = nSearch + 1
    /\ attempt' = 0
    /\ cooldowns' = 0
    /\ tries' = 0
    /\ pc' = "insert"
    /\ UNCHANGED <<env, nList, files, titles, next_page, existing_titles, remaining_songs,
                   failed_log, added_count, song, runs, faults, queue0, index0,
                   outcomes, inserted, indexed, nInsert, pauses, csvRead>>

(* The search returns no item. *)
SearchNotFound_unlogged ==
    /\ pc = "search"
    /\ faults < FaultLimit
    /\ faults' = faults + 1
    /\ nSearch' = nSearch + 1
    /\ failed_log' = failed_log
    /\ outcomes' = Append(outcomes, "NotFound")
    /\ pauses' = PauseAfter(added_count)
    /\ pc' = "loop"
    /\ UNCHANGED <<env, tries, nList, files, titles, next_page, existing_titles, remaining_songs,
                   added_count, song, attempt, runs, queue0, index0, inserted,
                   indexed, nInsert, cooldowns, csvRead>>

SearchNotFound ==
    /\ pc = "search"
    /\ faults < FaultLimit
    /\ faults' = faults + 1
    /\ nSearch' = nSearch + 1
    /\ failed_log' = Append(failed_log, Failure(song, "Not found"))
    /\ outcomes' = Append(outcomes, "NotFound")
    /\ pauses' = PauseAfter(added_count)
    /\ pc' = "loop"
    /\ UNCHANGED <<env, tries, nList, files, titles, next_page, existing_titles, remaining_songs,
                   added_count, song, attempt, runs, queue0, index0, inserted,
                   indexed, nInsert, cooldowns, csvRead>>

(* The search raises HttpError: the loop is left. *)
SearchHttpError ==
    /\ pc = "search"
    /\ faults < FaultLimit
    /\ \E e \in HttpErrors :
          IF IsQuotaExceeded(e)
          THEN /\ failed_log' = Append(failed_log, Failure(song, "Quota exceeded"))
               /\ remaining_songs' = PushFront(song, remaining_songs)
               /\ outcomes' = Append(outcomes, "QuotaExceeded")
               /\ UNCHANGED remaining_file
          ELSE /\ failed_log' = Append(failed_log, Failure(song, e.reason))
               /\ remaining_file' = <<WithCurrent(song, remaining_songs)>>
               /\ outcomes' = Append(outcomes, "Error")
               /\ UNCHANGED remaining_songs
    /\ faults' = faults + 1
    /\ nSearch' = nSearch + 1
    /\ pc' = "end"
    /\ UNCHANGED <<env, tries, nList, cache_file, log_file, titles, next_page, existing_titles,
                   added_count, song, attempt, runs, queue0, index0, inserted,
                   indexed, nInsert, pauses, cooldowns, csvRead>>

(* An insert attempt succeeds: add_video returns True. *)
InsertOk ==
    /\ pc = "insert"
    /\ nInsert' = nInsert + 1
    /\ tries' = tries + 1
    /\ existing_titles' = AddTitle(existing_titles, song.query)
    /\ indexed' = indexed \cup {song.query}
    /\ added_count' = added_count + 1
    /\ inserted' = Append(inserted, song.query)
    /\ outcomes' = Append(outcomes, "Added")
    /\ pauses' = PauseAfter(added_count')
    /\ attempt' = 0
    /\ pc' = "loop"
    /\ UNCHANGED <<env, nList, files, titles, next_page, remaining_songs, failed_log,
                   song, runs, faults, queue0, index0, nSearch, cooldowns, csvRead>>

(* An insert attempt raises HttpError: retry, or add_video returns False. *)
InsertHttpError ==
    /\ pc = "insert"
    /\ attempt = 0 => faults < FaultLimit
    /\ \E e \in HttpErrors :
          IF IsQuotaExceeded(e)
          THEN /\ failed_log' = Append(failed_log, Failure(song, "Failed to add or quota hit"))
               /\ outcomes' = Append(outcomes, "InsertQuota")
               /\ pauses' = PauseAfter(added_count)
               /\ attempt' = 0
               /\ pc' = "loop"
               /\ UNCHANGED cooldowns
          ELSE IF attempt < RETRIES - 1
          THEN /\ cooldowns' = cooldowns + 1
               /\ attempt' = attempt + 1
               /\ UNCHANGED <<failed_log, outcomes, pauses, pc>>
          ELSE /\ failed_log' = Append(failed_log, Failure(song, "Failed to add or quota hit"))
               /\ outcomes' = Append(outcomes, "FailedToAdd")
               /\ pauses' = PauseAfter(added_count)
               /\ attempt' = 0
               /\ pc' = "loop"
               /\ UNCHANGED cooldowns
    /\ faults' = IF attempt = 0 THEN faults + 1 ELSE faults
    /\ nInsert' = nInsert + 1
    /\ tries' = tries + 1
    /\ UNCHANGED <<env, nList, files, titles, next_page, existing_titles, remaining_songs,
                   added_count, song, runs, queue0, index0, inserted, indexed,
                   nSearch, csvRead>>

(* The loop is over: the failure log and the checkpoint are saved. *)
EndRun ==
    /\ \/ pc = "end"
       \/ pc = "loop" /\ remaining_songs = <<>>
    /\ log_file' = SaveLog(failed_log, log_file)
    /\ remaining_file' = SaveRemaining(remaining_songs, remaining_file)
    /\ pc' = "done"
    /\ UNCHANGED <<env, tries, nList, cache_file, titles, next_page, existing_titles,
                   remaining_songs, failed_log, added_count, song, attempt, runs,
                   faults, queue0, index0, outcomes, inserted, indexed, nSearch,
                   nInsert, pauses, cooldowns, csvRead>>

Next ==
    \/ StartRun
    \/ ListPage
    \/ ListHttpError
    \/ LoadQueue
    \/ Dequeue
    \/ SearchFound
    \/ SearchNotFound
    \/ SearchHttpError
    \/ InsertOk
    \/ InsertHttpError
    \/ EndRun

Spec == Init /\ [][Next]_vars

SpecBatch == InitBatch /\ [][Next]_vars

----------------------------------------------------------------------------
(* Vocabulary of the properties *)

Halted == pc \in {"end", "done"}

LastOutcome(o) == outcomes # <<>> /\ Last(outcomes) = o

(* The units of the loaded queue from position k on. *)
From(k) == SubSeq(queue0, k, Len(queue0))

Retired == {"AlreadyAdded", "NotFound", "FailedToAdd"}

ReasonOf(o) ==
    CASE o = "AlreadyAdded" -> "Already added"
      [] o = "NotFound" -> "Not found"
      [] OTHER -> "Failed to add or quota hit"

RECURSIVE ExpectedLog(_)
ExpectedLog(k) ==
    IF k = 0 THEN <<>>
    ELSE IF outcomes[k] = "Added" THEN ExpectedLog(k - 1)
    ELSE Append(ExpectedLog(k - 1), Failure(queue0[k], ReasonOf(outcomes[k])))

AddedBefore(k) == {queue0[j].query : j \in {i \in 1..(k - 1) : outcomes[i] = "Added"}}

NotAddedUpTo(k) == {i \in 1..k : outcomes[i] # "Added"}

NoPlatformError ==
    /\ \A i \in DOMAIN outcomes : outcomes[i] \in {"Added", "AlreadyAdded", "NotFound"}
    /\ nInsert = Len(inserted)

----------------------------------------------------------------------------
(* C1: when the search call of a unit reports quota exhaustion the loop is  *)
(* left, the queue is the triggering unit followed by the units not yet     *)
(* processed, in their original order, that queue is what the run persists, *)
(* and the run makes no further search or insert call.                      *)
QuotaHaltOrdering ==
    /\ [](LastOutcome("QuotaExceeded") =>
            /\ Halted
            /\ remaining_songs = From(Len(outcomes))
            /\ (pc = "done" => remaining_file = <<From(Len(outcomes))>>))
    /\ [][(LastOutcome("QuotaExceeded") /\ runs' = runs) =>
            (nSearch' = nSearch /\ nInsert' = nInsert /\ outcomes' = outcomes)]_vars

QuotaHaltReached ==
    /\ pc = "done"
    /\ LastOutcome("QuotaExceeded")
    /\ Len(outcomes) = 2
    /\ Len(queue0) = 3
    /\ remaining_file = <<SubSeq(queue0, 2, 3)>>

(* C2: when the insert collaborator reports quota exhaustion the loop is    *)
(* left and the current unit is back at the front of the queue.             *)
InsertQuotaHalts ==
    LastOutcome("InsertQuota") =>
        /\ Halted
        /\ remaining_songs = From(Len(outcomes))
        /\ (pc = "done" => remaining_file = <<From(Len(outcomes))>>)

(* C3: after a search error other than quota exhaustion the checkpoint left *)
(* by the run is the current unit followed by the units not yet processed.  *)
ErrorCheckpointKeepsCurrent ==
    (pc = "done" /\ LastOutcome("Error")) =>
        remaining_file = <<From(Len(outcomes))>>

(* C4: a query that has been in the dedup index, in this run or an earlier  *)
(* one, is not passed to the search or insert collaborator.                 *)
IndexedNeverSearchedAgain ==
    pc \in {"search", "insert"} => song.query \notin indexed

(* C5: a unit popped while its query is in the dedup index is recorded as   *)
(* already added, causes no search and no insert call, and the loop goes on *)
(* with the next unit.                                                      *)
IdempotentDedup ==
    [][(pc = "loop" /\ remaining_songs # <<>>
            /\ Head(remaining_songs).query \in existing_titles) =>
         /\ failed_log' = Append(failed_log, Failure(Head(remaining_songs), "Already added"))
         /\ remaining_songs' = Tail(remaining_songs)
         /\ nSearch' = nSearch
         /\ nInsert' = nInsert
         /\ existing_titles' = existing_titles
         /\ pc' = "loop"]_vars

DedupSkipReached ==
    /\ pc = "search"
    /\ Len(outcomes) = 2
    /\ outcomes[1] = "Added"
    /\ outcomes[2] = "AlreadyAdded"
    /\ nSearch = 1

(* C6: the queue a run starts with is the checkpoint, in order, when a      *)
(* checkpoint exists, and then the source file is not read; it is the       *)
(* source file only when there is no checkpoint.                            *)
CheckpointPrecedence ==
    (pc = "loop" /\ outcomes = <<>>) =>
        /\ remaining_songs = queue0
        /\ IF remaining_file # <<>>
           THEN queue0 = remaining_file[1] /\ ~csvRead
           ELSE queue0 = read_csv_songs(csv) /\ csvRead

CheckpointLoaded ==
    /\ pc = "loop"
    /\ outcomes = <<>>
    /\ remaining_file # <<>>
    /\ queue0 = remaining_file[1]
    /\ queue0 # read_csv_songs(csv)

(* C7: a run that drains the queue leaves no checkpoint file behind.        *)
DrainedRunLeavesNoCheckpoint ==
    (pc = "done" /\ remaining_songs = <<>>) => remaining_file = <<>>

(* C8: the number of batch pauses of a run is the number of times its count *)
(* of successful insertions has reached a multiple of BATCH_SIZE.           *)
BatchPacing == pauses = added_count \div BATCH_SIZE

(* C9: a unit that ends as AlreadyAdded, NotFound or FailedToAdd is not put *)
(* back: the queue is the loaded queue without the units popped so far, one *)
(* failure record is appended for it, and the loop goes on.                 *)
RetiredNotRequeued ==
    [][(outcomes' # outcomes /\ outcomes' # <<>> /\ Last(outcomes') \in Retired) =>
         /\ Len(outcomes') = Len(outcomes) + 1
         /\ remaining_songs' = From(Len(outcomes') + 1)
         /\ failed_log' = Append(failed_log,
                Failure(queue0[Len(outcomes')], ReasonOf(Last(outcomes'))))
         /\ pc' = "loop"]_vars

RetiredReached ==
    /\ pc = "loop"
    /\ outcomes = <<"NotFound", "FailedToAdd", "AlreadyAdded">>
    /\ remaining_songs = <<>>

(* C10: a run that starts without a checkpoint and meets no platform error  *)
(* ends with an empty queue, an index grown by exactly the inserted         *)
(* queries, one failure record per unit already added or not found, in      *)
(* processing order, and no checkpoint file.                                *)
CleanRun ==
    (pc = "done" /\ csvRead /\ NoPlatformError) =>
        /\ remaining_songs = <<>>
        /\ Len(outcomes) = Len(queue0)
        /\ \A k \in DOMAIN outcomes :
              outcomes[k] = "AlreadyAdded" <=>
                  queue0[k].query \in index0 \cup AddedBefore(k)
        /\ existing_titles = index0 \cup AddedBefore(Len(queue0) + 1)
        /\ failed_log = ExpectedLog(Len(outcomes))
        /\ (failed_log # <<>> => log_file = <<failed_log>>)
        /\ remaining_file = <<>>

CleanRunReached ==
    /\ pc = "done"
    /\ csvRead
    /\ NoPlatformError
    /\ outcomes = <<"AlreadyAdded", "NotFound", "Added">>
    /\ Len(failed_log) = 2
    /\ remaining_file = <<>>

(* C11: add_video calls the insert collaborator at most 3 times for a unit; *)
(* an attempt that fails for a non-quota reason is followed by a cooldown    *)
(* and another attempt unless it was the third; the first success, the first *)
(* quota answer or the third failure ends the call without a cooldown; and   *)
(* the unit counts as added exactly when its last attempt succeeded.         *)
InsertRetryPolicy ==
    /\ [](tries <= 3 /\ (pc = "insert" => (tries < 3 /\ cooldowns = tries)))
    /\ [][(tries' = tries + 1) =>
            \/ /\ pc' = "insert"
               /\ cooldowns' = cooldowns + 1
               /\ outcomes' = outcomes
               /\ added_count' = added_count
            \/ /\ pc' = "loop"
               /\ cooldowns' = cooldowns
               /\ Len(outcomes') = Len(outcomes) + 1
               /\ Last(outcomes') \in {"Added", "InsertQuota", "FailedToAdd"}
               /\ Last(outcomes') = "FailedToAdd" => tries' = 3
               /\ IF Last(outcomes') = "Added"
                  THEN /\ added_count' = added_count + 1
                       /\ failed_log' = failed_log
                  ELSE /\ added_count' = added_count
                       /\ Len(failed_log') = Len(failed_log) + 1]_vars

RetriesExhausted ==
    /\ pc = "loop"
    /\ LastOutcome("FailedToAdd")
    /\ tries = 3
    /\ cooldowns = 2

(* C12: a unit whose insert was cut short by a quota answer is recorded     *)
(* with the reason of quota exhaustion, a unit whose retries were exhausted *)
(* with another reason.                                                     *)
InsertFailureReasons ==
    /\ LastOutcome("InsertQuota") => Last(failed_log).Reason = "Quota exceeded"
    /\ LastOutcome("FailedToAdd") => Last(failed_log).Reason # "Quota exceeded"

(* C13: the units are popped in the order of the loaded queue, the queue   *)
(* in the loop is the loaded queue without the units popped so far, and    *)
(* the queue a run persists is a tail of the loaded queue.                 *)
FifoDispatch ==
    /\ [][(pc = "loop" /\ remaining_songs # <<>>) =>
            song' = queue0[Len(outcomes) + 1]]_vars
    /\ [](pc = "loop" => remaining_songs = From(Len(outcomes) + 1))
    /\ []((pc = "done" /\ remaining_songs # <<>>) =>
            /\ remaining_songs \in {From(Len(outcomes)), From(Len(outcomes) + 1)}
            /\ remaining_file = <<remaining_songs>>)

SecondUnitDispatched ==
    /\ pc = "search"
    /\ Len(queue0) = 3
    /\ Len(outcomes) = 1
    /\ queue0[1] # queue0[2]
    /\ song = queue0[2]
    /\ remaining_songs = From(3)

(* C14: within a run the dedup index is the set it was built with united   *)
(* with the queries of the units inserted so far; it never loses an entry  *)
(* and gains one only by a successful insertion.                           *)
IndexOnlyGrows ==
    /\ [](pc \in {"loop", "search", "insert", "end", "done"} =>
            existing_titles = index0 \cup AddedBefore(Len(outcomes) + 1))
    /\ [][(runs' = runs) => existing_titles \subseteq existing_titles']_vars
    /\ [][(pc \in {"loop", "search", "insert", "end"}
             /\ existing_titles' # existing_titles) =>
            /\ Len(outcomes') = Len(outcomes) + 1
            /\ Last(outcomes') = "Added"
            /\ existing_titles' = existing_titles \cup {song.query}]_vars

IndexGrown ==
    /\ pc = "loop"
    /\ index0 # {}
    /\ outcomes = <<"NotFound", "Added">>
    /\ Cardinality(existing_titles) = 2

(* C15: when there is no cache and the listing raises HttpError, the index *)
(* of the run is the set of the lower-cased titles of the pages listed     *)
(* before the error, the failed call is the last listing call, and the run *)
(* goes on to load the queue.                                              *)
PartialListing ==
    /\ []((runs > 0 /\ pc # "list" /\ cache_file = <<>>) =>
            /\ nList = next_page + 1
            /\ (IF pc = "load" THEN existing_titles ELSE index0) =
                  UNION {PageTitles(playlist[i]) : i \in 1..next_page})
    /\ [][(pc = "list" /\ faults' # faults) => (pc' = "load" /\ runs' = runs)]_vars

PartialIndexUsed ==
    /\ pc = "loop"
    /\ cache_file = <<>>
    /\ next_page = 1
    /\ nList = 2
    /\ index0 # {}
    /\ queue0 # <<>>

(* C16: the step that ends a run replaces the failure log file by the      *)
(* records of the run, in order, when there is at least one, and leaves it *)
(* as it was otherwise; no other step writes the file.                     *)
LogReplacedOrKept ==
    [][IF pc # "done" /\ pc' = "done"
       THEN log_file' = (IF failed_log # <<>> THEN <<failed_log>> ELSE log_file)
       ELSE log_file' = log_file]_vars

SecondLogWritten ==
    /\ pc = "done"
    /\ runs = 2
    /\ Len(failed_log) = 1
    /\ log_file = <<failed_log>>
    /\ faults = 2
    /\ nList = 0
    /\ nSearch = 1
    /\ nInsert = 0

(* C17: the cache file changes only by the listing call that answers the   *)
(* last page, with no error in the listing of that run, and then holds the *)
(* titles of all pages; a run that starts without a cache file lists the   *)
(* playlist.                                                               *)
CacheOnlyAfterFullListing ==
    /\ [][(cache_file' # cache_file) =>
            /\ pc = "list"
            /\ faults' = faults
            /\ nList' = Len(playlist)
            /\ cache_file = <<>>
            /\ cache_file' =
                  <<UNION {PageTitles(playlist[i]) : i \in 1..Len(playlist)}>>]_vars
    /\ [][(pc \in {"idle", "done"} /\ runs' # runs /\ cache_file = <<>>) =>
            pc' = "list"]_vars

ListedAgain ==
    /\ runs = 2
    /\ pc = "list"
    /\ cache_file = <<>>
    /\ faults >= 1

(* C18: when a run is over, every popped unit has exactly one outcome: it  *)
(* was inserted, its query is in the index and it has no failure record,   *)
(* or it has one failure record; the records are in the order of the       *)
(* units; and the units that were not popped are still in the queue.       *)
ExactlyOneOutcome ==
    pc = "done" =>
        /\ Len(outcomes) <= Len(queue0)
        /\ Len(failed_log) + added_count = Len(outcomes)
        /\ Len(failed_log) = Cardinality(NotAddedUpTo(Len(outcomes)))
        /\ \A k \in DOMAIN outcomes :
              IF outcomes[k] = "Added"
              THEN queue0[k].query \in existing_titles
              ELSE LET r == failed_log[Cardinality(NotAddedUpTo(k))]
                   IN  /\ r.query = queue0[k].query
                       /\ r.track = queue0[k].track
                       /\ r.artist = queue0[k].artist
        /\ \E n \in 0..Len(remaining_songs) :
              SubSeq(remaining_songs, n + 1, Len(remaining_songs)) =
                  From(Len(outcomes) + 1)

MixedOutcomes ==
    /\ pc = "done"
    /\ outcomes = <<"Added", "NotFound", "QuotaExceeded">>
    /\ Len(failed_log) = 2
    /\ Len(remaining_songs) = 1

(* C19: within a run no query is inserted twice: a unit whose query was    *)
(* inserted earlier in the run is recorded as already added.               *)
NoDoubleInsert ==
    /\ \A i, j \in DOMAIN inserted : i # j => inserted[i] # inserted[j]
    /\ \A k \in DOMAIN outcomes :
          queue0[k].query \in AddedBefore(k) => outcomes[k] = "AlreadyAdded"

DuplicateSkipped ==
    /\ pc = "loop"
    /\ index0 = {}
    /\ outcomes = <<"Added", "AlreadyAdded", "AlreadyAdded">>
    /\ Len(inserted) = 1

====
